---- MODULE Spec2Model ----
(***************************************************************************)
(* Model of the whack-a-TV arcade game in src/src/App.tsx (component App). *)
(*                                                                         *)
(* The state is the React state of App plus the browser resources it       *)
(* owns: localStorage and the pending setTimeout callbacks of smashTV.     *)
(* Every event (button click, hole click, interval or timeout callback)    *)
(* is one action; it contains the callback, the state updaters it queues   *)
(* and the effects React runs after the following render.                  *)
(*                                                                         *)
(* Spec is the game without wall-clock time: the interval and timeout      *)
(* callbacks interleave freely, restricted only by what the millisecond    *)
(* constants of the code force (a 300 ms timeout sees at most one 1000 ms  *)
(* clock tick; the spawn interval can fire only when it is shorter than    *)
(* the clock period that re-creates it).  SpecTimed keeps the millisecond  *)
(* timers of the clock and of the spawn interval explicitly.  SpecFx adds  *)
(* the sparkles of smashTV and calls of smashTV outside the playing phase. *)
(***************************************************************************)
EXTENDS Integers, Sequences, FiniteSets

\* ---------------------------------------------------------------- bounds
\* Slots kept by the model; the grid of App.tsx has 9 interchangeable slots.
NumSlots == 2
\* Events explored in a run: a successful strike takes 1 of it, a checkTvs
\* firing with an escape and a restart take 2 each.
MaxEvents == 6
\* The part of MaxEvents explored by SpecFair and SpecFx.
FairEvents == 3
\* The best score found in localStorage at mount, in hundreds.
SavedHundreds == 3
\* Distance between the jitter values explored by SpecTimed, in ms.
JitterStep == 133

\* ----------------------------------------------------- program constants
RoundLen == 30
PointsPerHit == 100
ComboCap == 5
TickMs == 1000
StartInterval == 1200
MinInterval == 400
RampMs == 30
JitterMs == 400

Slots == 0 .. (NumSlots - 1)

Min(a, b) == IF a < b THEN a ELSE b
Max(a, b) == IF a > b THEN a ELSE b

VARIABLES
  \* React state of App
  gameState, score, highScore, timeLeft, tvs, combo, missedCount,
  \* localStorage['clanker-highscore'] as a digit sequence, <<>> when absent
  storage,
  \* pending "hide TV" timeouts of smashTV, per slot
  hideTimers,
  \* millisecond timers (SpecTimed)
  tickIn, spawnIn, spawnEvery, sinceSpawn,
  \* length of the sparkles list of App (SpecFx); stray = smashTV was called
  \* outside playing since the latest start (history)
  sparkles, stray,
  \* history variables: chain = successful strikes since the last escape or
  \* round start, strikes = successful strikes of the round, rejected = a
  \* click of the round hit a slot that was not revealed-unstruck, prevBest =
  \* highScore before the latest start or tick, rounds = rounds started, endings and
  \* writes = ends and localStorage writes of the round, hits and misses =
  \* strikes and checkTvs firings with an escape of the whole run, ticks = clock ticks of the round
  chain, strikes, rejected, prevBest, rounds, endings, writes, hits, misses, ticks

progVars == <<gameState, score, highScore, timeLeft, tvs, combo, missedCount,
              storage, hideTimers>>
timeVars == <<tickIn, spawnIn, spawnEvery, sinceSpawn>>
fxVars == <<sparkles, stray>>
histVars == <<chain, strikes, rejected, prevBest, rounds, endings, writes, hits, misses, ticks>>
vars == <<progVars, timeVars, fxVars, histVars>>

\* what the run has taken of MaxEvents
Spent == hits + 2 * misses + 2 * (IF rounds = 0 THEN 0 ELSE rounds - 1)

\* ------------------------------------------------------------ pure parts
\* Array.from({length: 9}, ...) : every slot hidden, unsmashed
FreshTvs == [i \in Slots |-> [isVisible |-> FALSE, isSmashed |-> FALSE, showScore |-> FALSE]]

NoTimers == [i \in Slots |-> [fresh |-> 0, aged |-> 0, old |-> 0]]

Pending(t) == t.fresh + t.aged + t.old

\* Number.prototype.toString for a non-negative integer: decimal digits
RECURSIVE ToString(_)
ToString(n) == IF n < 10 THEN <<n>> ELSE Append(ToString(n \div 10), n % 10)

\* parseInt(s, 10) of a digit string
RECURSIVE ParseInt(_)
ParseInt(s) == IF Len(s) = 0 THEN 0
               ELSE 10 * ParseInt(SubSeq(s, 1, Len(s) - 1)) + s[Len(s)]

\* useState initialiser of highScore: saved ? parseInt(saved, 10) : 0
LoadHighScore(saved) == IF Len(saved) > 0 THEN ParseInt(saved) ELSE 0

\* TimeLeftUpdater counting down by two
TimeLeftUpdaterSkip(prev) ==
  IF prev <= 1 THEN [time |-> 0, ended |-> TRUE]
  ELSE [time |-> prev - 2, ended |-> FALSE]

\* TimeLeftUpdater with the end test one tick early (prev <= 2)
TimeLeftUpdaterEarly(prev) ==
  IF prev <= 2 THEN [time |-> 0, ended |-> TRUE]
  ELSE [time |-> prev - 1, ended |-> FALSE]

\* TimeLeftUpdater with the end test off by one (prev <= 0)
TimeLeftUpdaterLate(prev) ==
  IF prev <= 0 THEN [time |-> 0, ended |-> TRUE]
  ELSE [time |-> prev - 1, ended |-> FALSE]

\* setTimeLeft updater: [next value, whether setGameState('ended') is called]
TimeLeftUpdater(prev) ==
  IF prev <= 1 THEN [time |-> 0, ended |-> TRUE]
  ELSE [time |-> prev - 1, ended |-> FALSE]

\* SaveHighScoreCond with >= in place of >
SaveHighScoreCondGe(gs, sc, hs) == gs = "ended" /\ sc >= hs

\* SaveHighScoreCond without the comparison with highScore
SaveHighScoreAlways(gs, sc, hs) == gs = "ended"

\* condition of the "save high score" effect
SaveHighScoreCond(gs, sc, hs) == gs = "ended" /\ sc > hs

\* EffectActive without the early return
EffectActiveAlways(gs) == TRUE

\* the test that lets the spawn effect and the auto-hide effect run their
\* interval: if (gameState !== 'playing') return
EffectActive(gs) == gs = "playing"

\* HiddenTvs without the filter
HiddenTvsUnfiltered(prev) == Slots

\* hiddenTvs of spawnTV
HiddenTvs(prev) == {i \in Slots : ~prev[i].isVisible /\ ~prev[i].isSmashed}

\* the map of spawnTV for the chosen slot
SpawnUpdater(prev, id) ==
  [i \in Slots |-> IF i = id
                   THEN [isVisible |-> TRUE, isSmashed |-> FALSE, showScore |-> FALSE]
                   ELSE prev[i]]

\* BaseInterval without Math.max(400, ...)
BaseIntervalNoFloor(t) == StartInterval - (RoundLen - t) * RampMs

\* baseInterval of the spawn effect
BaseInterval(t) == Max(MinInterval, StartInterval - (RoundLen - t) * RampMs)

\* the values of Math.random() * 400 explored, truncated to whole ms
Jitters == {j \in 0 .. (JitterMs - 1) : j % JitterStep = 0}

\* delay handed to setInterval(spawnTV, ...)
SpawnInterval(t, j) == BaseInterval(t) + j

\* MayEscape without the !tv.isSmashed test
MayEscapeAnyVisible(tv) == tv.isVisible

\* the test of checkTvs that lets a slot take the random draw
MayEscape(tv) == tv.isVisible /\ ~tv.isSmashed

\* the slots checkTvs may hide
CanEscape(prev) == {i \in Slots : MayEscape(prev[i])}

\* the map of checkTvs when the random draw hides the slots of E
EscapeUpdater(prev, E) ==
  [i \in Slots |-> IF MayEscape(prev[i]) /\ i \in E
                   THEN [prev[i] EXCEPT !.isVisible = FALSE]
                   ELSE prev[i]]

\* ComboAfterCheck without setCombo(0)
ComboAfterCheckKept(prevCombo, E) == prevCombo

\* combo after checkTvs: setCombo(0) runs once per escaping slot
ComboAfterCheck(prevCombo, E) == IF E = {} THEN prevCombo ELSE 0

\* MissedAfterCheck counting one miss per firing
MissedAfterCheckOnce(prevMissed, E) == IF E = {} THEN prevMissed ELSE prevMissed + 1

\* missedCount after checkTvs: setMissedCount(c => c + 1) once per escaping slot
MissedAfterCheck(prevMissed, E) == prevMissed + Cardinality(E)

\* OnClickGuard without the !tv.isSmashed test
OnClickGuardVisibleOnly(tv) == tv.isVisible

\* onClick guard of GameHole
OnClickGuard(tv) == tv.isVisible /\ ~tv.isSmashed

\* setTvs updater of smashTV
SmashUpdater(prev, id) ==
  IF id \notin Slots \/ ~prev[id].isVisible \/ prev[id].isSmashed THEN prev
  ELSE [prev EXCEPT ![id] = [@ EXCEPT !.isSmashed = TRUE, !.showScore = TRUE]]

\* Points without the cap of the multiplier
PointsUncapped(newCombo) == PointsPerHit * newCombo

\* points of smashTV
Points(newCombo) == PointsPerHit * Min(newCombo, ComboCap)

\* setTvs updater of the "hide TV" timeout
HideUpdater(prev, id) ==
  [i \in Slots |-> IF i = id
                   THEN [isVisible |-> FALSE, isSmashed |-> FALSE, showScore |-> FALSE]
                   ELSE prev[i]]

\* the "TVs Smashed" figure of the ended screen
TvsSmashedShown == score \div 100

\* condition of the NEW HIGH SCORE banner of the ended screen
NewHighScoreShown == gameState = "ended" /\ score > highScore - score /\ score > 0

\* ------------------------------------------------------------------ Init
Init ==
  /\ storage \in {<<>>, ToString(PointsPerHit * SavedHundreds)}
  /\ score = 0
  /\ highScore = LoadHighScore(storage)
  /\ timeLeft = RoundLen
  /\ gameState = "idle"
  /\ tvs = FreshTvs
  /\ combo = 0
  /\ missedCount = 0
  /\ hideTimers = NoTimers
  /\ tickIn = 0 /\ spawnIn = 0 /\ spawnEvery = 0 /\ sinceSpawn = 0
  /\ sparkles = 0 /\ stray = FALSE
  /\ chain = 0 /\ strikes = 0 /\ rejected = FALSE
  /\ hits = 0 /\ misses = 0 /\ ticks = 0
  /\ prevBest = highScore
  /\ rounds = 0 /\ endings = 0 /\ writes = 0

\* --------------------------------------------------------------- actions
\* StartGame without setCombo(0)
StartGameKeepCombo ==
  /\ gameState \in {"idle", "ended"}
  /\ rounds = 0 \/ Spent + 2 <= MaxEvents
  /\ score' = 0
  /\ timeLeft' = RoundLen
  /\ gameState' = "playing"
  /\ missedCount' = 0
  /\ tvs' = FreshTvs
  /\ hideTimers' = [i \in Slots |-> [fresh |-> 0, aged |-> 0, old |-> Pending(hideTimers[i])]]
  /\ UNCHANGED <<highScore, storage, combo>>
  /\ chain' = 0 /\ strikes' = 0 /\ rejected' = FALSE
  /\ rounds' = rounds + 1 /\ endings' = 0 /\ writes' = 0
  /\ prevBest' = highScore /\ ticks' = 0
  /\ UNCHANGED <<hits, misses>>

\* StartGame without setTimeLeft(30)
StartGameKeepTime ==
  /\ gameState \in {"idle", "ended"}
  /\ rounds = 0 \/ Spent + 2 <= MaxEvents
  /\ score' = 0
  /\ gameState' = "playing"
  /\ combo' = 0
  /\ missedCount' = 0
  /\ tvs' = FreshTvs
  /\ hideTimers' = [i \in Slots |-> [fresh |-> 0, aged |-> 0, old |-> Pending(hideTimers[i])]]
  /\ UNCHANGED <<highScore, storage, timeLeft>>
  /\ chain' = 0 /\ strikes' = 0 /\ rejected' = FALSE
  /\ rounds' = rounds + 1 /\ endings' = 0 /\ writes' = 0
  /\ prevBest' = highScore /\ ticks' = 0
  /\ UNCHANGED <<hits, misses>>

\* startGame, reached from the INSERT COIN and PLAY AGAIN buttons
StartGame ==
  /\ gameState \in {"idle", "ended"}
  /\ rounds = 0 \/ Spent + 2 <= MaxEvents
  /\ score' = 0
  /\ timeLeft' = RoundLen
  /\ gameState' = "playing"
  /\ combo' = 0
  /\ missedCount' = 0
  /\ tvs' = FreshTvs
  \* the timeouts of smashTV are not cleared; they now belong to an old round
  /\ hideTimers' = [i \in Slots |-> [fresh |-> 0, aged |-> 0, old |-> Pending(hideTimers[i])]]
  /\ UNCHANGED <<highScore, storage>>
  /\ chain' = 0 /\ strikes' = 0 /\ rejected' = FALSE
  /\ rounds' = rounds + 1 /\ endings' = 0 /\ writes' = 0
  /\ prevBest' = highScore /\ ticks' = 0
  /\ UNCHANGED <<hits, misses>>

\* callback of the game timer interval, with the render and effects after it
Tick ==
  /\ gameState = "playing"
  \* a 300 ms timeout is due before the second 1000 ms tick after it was set,
  \* and before the first tick of a round started after it was set
  /\ \A i \in Slots : hideTimers[i].aged = 0 /\ hideTimers[i].old = 0
  /\ LET r == TimeLeftUpdater(timeLeft)
         gs == IF r.ended THEN "ended" ELSE gameState
         save == SaveHighScoreCond(gs, score, highScore)
     IN /\ timeLeft' = r.time
        /\ gameState' = gs
        /\ highScore' = IF save THEN score ELSE highScore
        /\ storage' = IF save THEN ToString(score) ELSE storage
        /\ endings' = IF gs = "ended" THEN endings + 1 ELSE endings
        /\ writes' = IF save THEN writes + 1 ELSE writes
        /\ prevBest' = highScore
        /\ ticks' = ticks + 1
  /\ hideTimers' = [i \in Slots |-> [fresh |-> 0, aged |-> hideTimers[i].fresh, old |-> 0]]
  /\ UNCHANGED <<score, tvs, combo, missedCount>>
  /\ UNCHANGED <<chain, strikes, rejected, rounds, hits, misses>>

\* the spawn interval is re-created by every clock tick, so it fires only
\* when its period fits into one clock period
SpawnCanFire(t) == BaseInterval(t) <= TickMs

\* spawnTV
SpawnTV ==
  /\ EffectActive(gameState)
  /\ IF HiddenTvs(tvs) = {} THEN tvs' = tvs
     ELSE \E id \in HiddenTvs(tvs) : tvs' = SpawnUpdater(tvs, id)
  /\ UNCHANGED <<gameState, score, highScore, timeLeft, combo, missedCount, storage, hideTimers>>
  /\ UNCHANGED histVars

Spawn == SpawnCanFire(timeLeft) /\ SpawnTV

\* callback of the checkTvs interval; E is the set of slots whose random
\* draw is below 0.15
CheckTvs ==
  /\ EffectActive(gameState)
  /\ \E E \in SUBSET CanEscape(tvs) :
       /\ E # {} => Spent + 2 <= MaxEvents
       /\ misses' = IF E = {} THEN misses ELSE misses + 1
       /\ tvs' = EscapeUpdater(tvs, E)
       /\ combo' = ComboAfterCheck(combo, E)
       /\ missedCount' = MissedAfterCheck(missedCount, E)
       /\ chain' = IF E = {} THEN chain ELSE 0
  /\ UNCHANGED <<gameState, score, highScore, timeLeft, storage, hideTimers>>
  /\ UNCHANGED <<strikes, rejected, prevBest, rounds, endings, writes, hits, ticks>>

\* SmashReturns without the test
SmashReturnsNever(gs) == FALSE

\* the early return of smashTV: if (gameState !== 'playing') return
SmashReturns(gs) == gs # "playing"

\* SmashTV without the setTimeout that hides the TV
SmashTVNoTimeout(id) ==
  IF SmashReturns(gameState) THEN UNCHANGED <<tvs, combo, score, hideTimers>>
  ELSE /\ tvs' = SmashUpdater(tvs, id)
       /\ combo' = combo + 1
       /\ score' = score + Points(combo + 1)
       /\ UNCHANGED hideTimers

\* smashTV(id, e), without the sparkle
SmashTV(id) ==
  IF SmashReturns(gameState) THEN UNCHANGED <<tvs, combo, score, hideTimers>>
  ELSE /\ tvs' = SmashUpdater(tvs, id)
       /\ combo' = combo + 1
       /\ score' = score + Points(combo + 1)
       /\ hideTimers' = [hideTimers EXCEPT ![id].fresh = @ + 1]

\* onClick of the GameHole of slot id; the grid is rendered while playing
Click(id) ==
  /\ gameState = "playing"
  /\ LET valid == tvs[id].isVisible /\ ~tvs[id].isSmashed
     IN /\ valid => Spent + 1 <= MaxEvents
        /\ IF OnClickGuard(tvs[id]) THEN SmashTV(id)
           ELSE UNCHANGED <<tvs, combo, score, hideTimers>>
        /\ chain' = IF valid THEN chain + 1 ELSE chain
        /\ strikes' = IF valid THEN strikes + 1 ELSE strikes
        /\ hits' = IF valid THEN hits + 1 ELSE hits
        /\ rejected' = (rejected \/ ~valid)
  /\ UNCHANGED <<gameState, highScore, timeLeft, missedCount, storage>>
  /\ UNCHANGED <<prevBest, rounds, endings, writes, misses, ticks>>

\* the "hide TV" timeout of smashTV fires for slot id (oldest first)
HideTV(id) ==
  /\ Pending(hideTimers[id]) > 0
  /\ tvs' = HideUpdater(tvs, id)
  /\ hideTimers' = [hideTimers EXCEPT ![id] =
        IF @.old > 0 THEN [@ EXCEPT !.old = @ - 1]
        ELSE IF @.aged > 0 THEN [@ EXCEPT !.aged = @ - 1]
        ELSE [@ EXCEPT !.fresh = @ - 1]]
  /\ UNCHANGED <<gameState, score, highScore, timeLeft, combo, missedCount, storage>>
  /\ UNCHANGED histVars

Next ==
  \/ StartGame /\ UNCHANGED <<timeVars, fxVars>>
  \/ Tick /\ UNCHANGED <<timeVars, fxVars>>
  \/ Spawn /\ UNCHANGED <<timeVars, fxVars>>
  \/ CheckTvs /\ UNCHANGED <<timeVars, fxVars>>
  \/ \E id \in Slots : Click(id) /\ UNCHANGED <<timeVars, fxVars>>
  \/ \E id \in Slots : HideTV(id) /\ UNCHANGED <<timeVars, fxVars>>

Spec == Init /\ [][Next]_vars

\* the steps of Next within the budget of SpecFair
NextFair == Next /\ Spent' <= FairEvents

\* the intervals and timeouts of the browser keep firing: the game timer
\* while it is set, every "hide TV" timeout once
SpecFair ==
  /\ Init /\ [][NextFair]_vars
  /\ WF_vars(Tick /\ UNCHANGED <<timeVars, fxVars>>)
  /\ \A id \in Slots : WF_vars(HideTV(id) /\ UNCHANGED <<timeVars, fxVars>>)

\* ------------------------------------------------------- sparkles
\* the sparkle of smashTV: setSparkles(prev => [...prev, sparkle])
AddSparkle ==
  sparkles' = IF SmashReturns(gameState) THEN sparkles ELSE sparkles + 1

\* startGame leaves the sparkles alone
FxStart == StartGame /\ stray' = FALSE /\ UNCHANGED sparkles

\* onClick of a GameHole, with the sparkle of smashTV
FxClick(id) ==
  /\ Click(id)
  /\ IF OnClickGuard(tvs[id]) THEN AddSparkle ELSE UNCHANGED sparkles
  /\ UNCHANGED stray

\* the "remove sparkle" timeout of smashTV fires
RemoveSparkle ==
  /\ sparkles > 0
  /\ sparkles' = sparkles - 1
  /\ UNCHANGED <<progVars, histVars, stray>>

\* smashTV(id, e) is called while the phase is idle or ended
StrayStrike(id) ==
  /\ gameState # "playing"
  /\ SmashTV(id)
  /\ AddSparkle
  /\ stray' = TRUE
  /\ UNCHANGED <<gameState, highScore, timeLeft, missedCount, storage>>
  /\ UNCHANGED histVars

\* the steps of the game with the sparkles, within the budget FairEvents
NextFx ==
  /\ \/ FxStart
     \/ Tick /\ UNCHANGED fxVars
     \/ Spawn /\ UNCHANGED fxVars
     \/ CheckTvs /\ UNCHANGED fxVars
     \/ \E id \in Slots : FxClick(id)
     \/ \E id \in Slots : HideTV(id) /\ UNCHANGED fxVars
     \/ RemoveSparkle
     \/ \E id \in Slots : StrayStrike(id)
  /\ UNCHANGED timeVars
  /\ Spent' <= FairEvents

SpecFx == Init /\ [][NextFx]_vars

\* ------------------------------------------------- millisecond timers
\* startGame, then the timer effect and the spawn effect create their intervals
TimedStart ==
  /\ StartGame
  /\ tickIn' = TickMs
  /\ \E j \in Jitters : spawnEvery' = SpawnInterval(RoundLen, j)
  /\ spawnIn' = spawnEvery'
  /\ sinceSpawn' = 0

\* the game timer fires first; the change of timeLeft makes the spawn effect
\* clear its interval and create a new one
TimedTick ==
  /\ tickIn <= spawnIn
  /\ Tick
  /\ sinceSpawn' = sinceSpawn + tickIn
  /\ IF gameState' = "playing"
     THEN /\ tickIn' = TickMs
          /\ \E j \in Jitters : spawnEvery' = SpawnInterval(timeLeft', j)
          /\ spawnIn' = spawnEvery'
     ELSE tickIn' = 0 /\ spawnEvery' = 0 /\ spawnIn' = 0

\* the spawn interval fires first
TimedSpawn ==
  /\ spawnIn <= tickIn
  /\ SpawnTV
  /\ tickIn' = tickIn - spawnIn
  /\ spawnIn' = spawnEvery
  /\ sinceSpawn' = 0
  /\ UNCHANGED spawnEvery

NextTimed == (TimedStart \/ TimedTick \/ TimedSpawn) /\ UNCHANGED fxVars

SpecTimed == Init /\ [][NextTimed]_vars

\* ------------------------------------------------------------ sanity
TypeOK ==
  /\ gameState \in {"idle", "playing", "ended"}
  /\ score \in Nat /\ highScore \in Nat /\ timeLeft \in Int
  /\ combo \in Nat /\ missedCount \in Nat
  /\ \A i \in Slots : Pending(hideTimers[i]) <= 1

\* under SpecTimed: the spawn interval fires only where Spec lets Spawn fire
TimedSpawnAllowed == [][sinceSpawn' = 0 /\ gameState = "playing" => SpawnCanFire(timeLeft)]_vars
\* ------------------------------------------------------------ claims
HiddenUnstruck(tv) == ~tv.isVisible /\ ~tv.isSmashed
RevealedUnstruck(tv) == tv.isVisible /\ ~tv.isSmashed
RevealedStruck(tv) == tv.isVisible /\ tv.isSmashed

\* sum of 100 * min(i, 5) for i = 1..n
RECURSIVE CumPoints(_)
CumPoints(n) == IF n = 0 THEN 0 ELSE CumPoints(n - 1) + 100 * Min(n, 5)

C2_ComboIsChain ==
  /\ [](combo = chain)
  /\ [](strikes = 1 /\ missedCount = 0 => score = 100 /\ combo = 1)
  /\ [](strikes = 2 /\ missedCount = 0 => score = 300 /\ combo = 2)
  /\ [](strikes = 3 /\ missedCount = 1 /\ chain = 1 => score = 400 /\ combo = 1)
  /\ [][(missedCount' > missedCount => combo' = 0)
        /\ (strikes' > strikes /\ combo = 0 => score' = score + 100 /\ combo' = 1)]_vars

\* the state after strike, strike, escape, strike
C2_Witness ==
  strikes = 3 /\ missedCount = 1 /\ chain = 1 /\ score = 400 /\ combo = 1

\* a "hide TV" timeout fires for slot i in this step
TimeoutFires(i) == Pending(hideTimers'[i]) < Pending(hideTimers[i])

\* C3: a reversion scheduled in an earlier round never changes a slot of the
\* current round, and no reversion changes a slot once the phase is ended.
C3_NoReversionAcrossRounds ==
  [][\A i \in Slots :
       TimeoutFires(i) /\ (hideTimers[i].old > 0 \/ gameState = "ended")
         => tvs' = tvs]_vars

\* C4: no slot is ever struck but not revealed.
C4_StruckImpliesRevealed ==
  \A i \in Slots : tvs[i].isSmashed => tvs[i].isVisible

\* one slot is struck while another has escaped, in a round after a restart
C4_Witness ==
  /\ rounds = 2 /\ missedCount > 0
  /\ \E i \in Slots : RevealedStruck(tvs[i])
  /\ \E i \in Slots : HiddenUnstruck(tvs[i])

\* C5: the Nth consecutive successful strike adds 100 * min(N, 5), and a
\* chain of N strikes from a fresh round totals the sum over i = 1..N.
C5_PointsOfNthStrike ==
  /\ [][strikes' = strikes + 1 => score' - score = 100 * Min(chain', 5)]_vars
  /\ [](chain = strikes => score = CumPoints(strikes))

\* six strikes in a row: 100 + 200 + 300 + 400 + 500 + 500
C5_Witness == chain = 6 /\ strikes = 6 /\ score = 2000

\* C6: within a round timeLeft is never negative, reaches 0 once, the phase
\* ends once with one settlement, and outside playing timeLeft stays put.
C6_ClockEndsOnce ==
  /\ [](/\ timeLeft >= 0
        /\ endings <= 1 /\ writes <= 1
        /\ (gameState = "playing" => timeLeft > 0 /\ endings = 0)
        /\ (gameState = "ended" => timeLeft = 0 /\ endings = 1))
  /\ [][gameState # "playing" /\ gameState' # "playing"
          => timeLeft' = timeLeft /\ endings' = endings /\ writes' = writes]_vars

\* the second round has ended and written a new best score
C6_Witness ==
  gameState = "ended" /\ rounds = 2 /\ endings = 1 /\ writes = 1 /\ timeLeft = 0

\* C7: after a round highScore = max(highScore before, final score); it
\* never decreases and changes only when a round ends.
C7_BestScoreIsMax ==
  /\ [](gameState = "ended" => highScore = Max(prevBest, score))
  /\ [][/\ highScore' >= highScore
        /\ (highScore' # highScore => gameState = "playing" /\ gameState' = "ended")]_vars

\* a second round ended below the best score that the first round had set
C7_Witness ==
  /\ gameState = "ended" /\ rounds = 2
  /\ score > 0 /\ score < highScore
  /\ highScore > 100 * SavedHundreds

\* C8: startGame from idle or ended gives phase playing, every slot
\* hidden-unstruck, score, combo and missedCount 0, timeLeft 30, and leaves
\* highScore unchanged.
C8_StartResets ==
  [][rounds' = rounds + 1 =>
       /\ gameState \in {"idle", "ended"}
       /\ gameState' = "playing"
       /\ \A i \in Slots : HiddenUnstruck(tvs'[i])
       /\ score' = 0 /\ combo' = 0 /\ missedCount' = 0
       /\ timeLeft' = 30
       /\ highScore' = highScore]_vars

\* a round just restarted after a round that scored, with a reversion of
\* the earlier round still pending
C8_Witness ==
  /\ rounds = 2 /\ gameState = "playing" /\ timeLeft = 30 /\ score = 0
  /\ highScore > 100 * SavedHundreds
  /\ \E i \in Slots : hideTimers[i].old > 0

\* C9: while playing, a spawn firing occurs within one period (at most
\* 1600 ms) of the previous firing or of round start.
C9_SpawnWithinPeriod ==
  gameState = "playing" => sinceSpawn <= StartInterval + JitterMs

\* C10: the NEW HIGH SCORE banner is shown exactly when the final score is
\* greater than the best score before the settlement of the round.
C10_BannerIffNewBest ==
  gameState = "ended" => (NewHighScoreShown <=> score > prevBest)

\* C11: from timeLeft = 30 every clock tick takes exactly 1 off timeLeft, the
\* phase becomes ended at the 30th tick with timeLeft = 0, and with the
\* timers firing every started round ends.
C11_ClockRunsOut ==
  /\ [](gameState = "playing" /\ ticks = 0 => timeLeft = 30)
  /\ [][ticks' = ticks + 1 => timeLeft' = timeLeft - 1]_vars
  /\ [][gameState = "playing" /\ gameState' = "ended"
          => ticks' = 30 /\ timeLeft' = 0]_vars
  /\ ((gameState = "playing") ~> (gameState = "ended"))

\* a round with strikes has ended at its 30th tick
C11_Witness == gameState = "ended" /\ ticks = 30 /\ timeLeft = 0 /\ strikes > 0

\* C12: a checkTvs firing hides only revealed-unstruck slots; k escapes add
\* k to missedCount and leave combo 0; score is untouched; without an
\* escape combo and missedCount do not move.
C12_EscapeFiring ==
  [][/\ misses' # misses =>
          LET Esc == {i \in Slots : tvs'[i] # tvs[i]}
          IN /\ Esc # {}
             /\ \A i \in Esc : RevealedUnstruck(tvs[i]) /\ HiddenUnstruck(tvs'[i])
             /\ missedCount' = missedCount + Cardinality(Esc)
             /\ combo' = 0
             /\ score' = score
     /\ (combo' = 0 /\ combo # 0 => misses' # misses \/ rounds' # rounds)
     /\ (missedCount' # missedCount => misses' # misses \/ rounds' # rounds)]_vars

\* two slots escaped in one firing, after a strike
C12_Witness == misses = 1 /\ missedCount = 2 /\ strikes > 0 /\ combo = 0

\* a step that changes a slot and is no strike, reversion, escape or start
SpawnStep ==
  tvs' # tvs /\ hideTimers' = hideTimers /\ misses' = misses /\ rounds' = rounds

\* C13: a spawn firing that changes anything changes exactly one slot, from
\* hidden-unstruck to revealed-unstruck, and leaves the other slots, score,
\* combo, missedCount and timeLeft unchanged.
C13_SpawnFrame ==
  [][SpawnStep =>
       /\ \E i \in Slots :
            /\ HiddenUnstruck(tvs[i])
            /\ RevealedUnstruck(tvs'[i])
            /\ \A j \in Slots \ {i} : tvs'[j] = tvs[j]
       /\ UNCHANGED <<score, combo, missedCount, timeLeft>>]_vars

\* the spawn interval can fire while no slot is hidden: one slot is struck,
\* the other revealed
C13_Witness ==
  /\ gameState = "playing" /\ SpawnCanFire(timeLeft)
  /\ HiddenTvs(tvs) = {}
  /\ \E i \in Slots : RevealedStruck(tvs[i])
  /\ \E i \in Slots : RevealedUnstruck(tvs[i])

\* C14: outside playing no slot is revealed, no slot escapes, and score,
\* combo and missedCount keep the values of the end of the round.
C14_QuietOutsidePlaying ==
  [][gameState' # "playing" =>
       /\ score' = score /\ combo' = combo /\ missedCount' = missedCount
       /\ \A i \in Slots :
            /\ tvs'[i].isVisible => tvs[i].isVisible
            /\ RevealedUnstruck(tvs[i]) => tvs'[i] = tvs[i]]_vars

\* a round ended with a revealed slot, a hidden slot, a combo and a miss
C14_Witness ==
  /\ gameState = "ended" /\ combo > 0 /\ missedCount > 0
  /\ \E i \in Slots : RevealedUnstruck(tvs[i])
  /\ \E i \in Slots : HiddenUnstruck(tvs[i])

\* C15: a struck slot returns to hidden-unstruck through its reversion or a
\* round reset; while struck it is not escaped, re-revealed or struck
\* again; every successful strike schedules one reversion for its slot.
C15_StruckReverts ==
  /\ \A i \in Slots : (tvs[i].isSmashed ~> HiddenUnstruck(tvs[i]))
  /\ [](\A i \in Slots : tvs[i].isSmashed => Pending(hideTimers[i]) = 1)
  /\ [][\A i \in Slots :
          /\ RevealedStruck(tvs[i]) =>
               \/ tvs'[i] = tvs[i]
               \/ HiddenUnstruck(tvs'[i]) /\ (TimeoutFires(i) \/ rounds' = rounds + 1)
          /\ Pending(hideTimers'[i]) > Pending(hideTimers[i]) =>
               /\ RevealedUnstruck(tvs[i]) /\ RevealedStruck(tvs'[i])
               /\ Pending(hideTimers'[i]) = Pending(hideTimers[i]) + 1
               /\ hits' = hits + 1]_vars
  /\ [][hits' = hits + 1 =>
          \E i \in Slots :
            /\ Pending(hideTimers'[i]) = Pending(hideTimers[i]) + 1
            /\ \A j \in Slots \ {i} : hideTimers'[j] = hideTimers[j]]_vars

\* a struck slot has seen a clock tick and waits for its reversion while
\* another slot is revealed
C15_Witness ==
  /\ gameState = "playing"
  /\ \E i \in Slots : RevealedStruck(tvs[i]) /\ hideTimers[i].aged = 1
  /\ \E i \in Slots : RevealedUnstruck(tvs[i])

\* C16: the base interval is within 400..1200, is 1200 at timeLeft = 30,
\* does not grow as timeLeft falls, and base + jitter is in 400..1599.
C16_SpawnIntervalRange ==
  /\ BaseInterval(timeLeft) >= 400 /\ BaseInterval(timeLeft) <= 1200
  /\ timeLeft = 30 => BaseInterval(timeLeft) = 1200
  /\ timeLeft < 30 => BaseInterval(timeLeft) <= BaseInterval(timeLeft + 1)
  /\ gameState = "playing" =>
       /\ spawnEvery >= 400 /\ spawnEvery < 1600
       /\ spawnEvery - BaseInterval(timeLeft) \in 0 .. 399

\* the interval at the floor of the base, with jitter
C16_Witness ==
  gameState = "playing" /\ BaseInterval(timeLeft) = 400 /\ spawnEvery > 400

\* C17: the phase changes only idle -> playing and ended -> playing by
\* startGame and playing -> ended by the clock reaching 0; idle is never
\* entered again.
C17_PhaseTransitions ==
  /\ [](gameState = "idle" => rounds = 0)
  /\ [][gameState' # gameState =>
          \/ /\ gameState \in {"idle", "ended"} /\ gameState' = "playing"
             /\ rounds' = rounds + 1
          \/ /\ gameState = "playing" /\ gameState' = "ended"
             /\ timeLeft = 1 /\ timeLeft' = 0]_vars
  /\ [][rounds' # rounds => gameState' = "playing" /\ gameState # "playing"]_vars

\* idle -> playing -> ended -> playing has happened
C17_Witness == gameState = "playing" /\ rounds = 2 /\ ticks > 0

\* C18: localStorage is written only when a round ends with score above
\* highScore, at most once per round; the stored value then reads back as
\* highScore; a round that does not beat highScore writes nothing.
C18_PersistedBest ==
  /\ [](LoadHighScore(storage) = highScore)
  /\ [](writes <= 1)
  /\ [][/\ storage' # storage => writes' = writes + 1
        /\ writes' = writes + 1 =>
             /\ gameState = "playing" /\ gameState' = "ended"
             /\ score > highScore
             /\ ParseInt(storage') = score /\ highScore' = score
        /\ gameState = "playing" /\ gameState' = "ended" /\ score <= highScore =>
             storage' = storage /\ writes' = writes /\ highScore' = highScore]_vars

\* a round beat a stored best score with a four-digit score
C18_Witness ==
  /\ gameState = "ended" /\ writes = 1
  /\ prevBest > 0 /\ score > prevBest /\ score >= 1000
  /\ storage = ToString(score)

\* C19: the "TVs Smashed" figure of the ended screen is the number of
\* successful strikes of the round.
C19_SmashedIsStrikes ==
  gameState = "ended" => TvsSmashedShown = strikes

\* C20: idle has timeLeft = 30, playing has 1 <= timeLeft <= 30, ended has
\* timeLeft = 0, and timeLeft is always within 0..30.
C20_PhaseClock ==
  /\ timeLeft \in 0 .. 30
  /\ gameState = "idle" => timeLeft = 30
  /\ gameState = "playing" => timeLeft >= 1
  /\ gameState = "ended" => timeLeft = 0

\* the last second of a second round
C20_Witness == gameState = "playing" /\ timeLeft = 1 /\ rounds = 2
\* C21: a strike received while the phase is idle or ended changes nothing:
\* score, combo, missedCount, highScore and every slot stay as they are, no
\* reversion and no sparkle is scheduled, and the score of an ended round
\* does not change any more; strikes are counted only while playing.
C21_StrikeOutsidePlaying ==
  /\ [][~stray /\ stray' =>
          /\ gameState \in {"idle", "ended"}
          /\ UNCHANGED <<progVars, sparkles>>]_vars
  /\ [][gameState = "ended" /\ gameState' = "ended" => score' = score]_vars
  /\ [][strikes' # strikes /\ strikes' # 0 => gameState = "playing"]_vars

\* smashTV was called after a round with a score ended, while a slot is
\* still revealed and a sparkle is still shown
C21_Witness ==
  /\ stray /\ gameState = "ended" /\ score > 0
  /\ \E i \in Slots : RevealedUnstruck(tvs[i])
  /\ sparkles > 0
====
